---- MODULE Spec2Model ----
(***************************************************************************)
(* InsightRay (MoonRock404/InsightRay-PoweredbyHoppr): the inference       *)
(* helpers of src/src/inference.py and the Streamlit script of src/app.py. *)
(*                                                                         *)
(* Three specifications:                                                   *)
(*   SpecFn       one call of one function of src/src/inference.py, its    *)
(*                inputs (remote replies, remote errors, score maps, model *)
(*                tables, credential) drawn by Init from bounded sets; a   *)
(*                debug variant is called after its simple variant;        *)
(*   Spec         the Streamlit session of src/app.py in the technician    *)
(*                view: one action per script run (a button click or a     *)
(*                widget change), the batch loop stepped one file at a     *)
(*                time;                                                    *)
(*   SpecPatient  the session in the patient view: the threshold sliders   *)
(*                and the patient handler.                                 *)
(*                                                                         *)
(* Numbers: a probability is an integer number of hundredths (0.9 is 90),  *)
(* an urgency an integer number of ten-thousandths (1.125 is 11250).       *)
(***************************************************************************)
EXTENDS Integers, Sequences, FiniteSets, TLC

VARIABLES
    api_key,        \* HOPPR_API_KEY is set in the process environment
    hoppr,          \* get_hoppr's lru_cache holds a client
    active,         \* the findings whose sidebar checkbox is checked
    mode,           \* the sidebar radio: "Technician" or "Patient"
    triage_rows,    \* st.session_state.triage_rows
    loop,           \* position of the running batch loop (<<>> when no script runs)
    calls,          \* remote calls issued by the current script run, in order
    status,         \* how the last script run ended
    processed,      \* history: rows of the files processed since the last clear
    drawn,          \* history: the remote outcomes of each case of the current script run
    sliders,        \* what the patient view's threshold sliders return (<<>> when not shown)
    report,         \* what the patient handler displayed in the current script run
    input,          \* SpecFn: the function called and its inputs
    hist            \* SpecFn: the calls made, each [fn, arg, res, ...]

vars == <<api_key, hoppr, active, mode, triage_rows, loop, calls, status,
          processed, drawn, sliders, report, input, hist>>

appVars == <<active, mode, triage_rows, loop, calls, status, processed, drawn,
            sliders, report>>
fnVars == <<input, hist>>

(***************************************************************************)
(* Python values, as tagged tuples.                                        *)
(***************************************************************************)
None == <<"none">>
Num(n) == <<"num", n>>
Bool(b) == <<"bool", b>>
\* a str: Raw(t) is the text t, which is not JSON; Json(v) is the JSON text of v
Raw(t) == <<"str", <<"raw", t>>>>
Json(v) == <<"str", <<"json", v>>>>
List(s) == <<"list", s>>
\* a dict: f is a function from its keys to its values
Dict(f) == <<"dict", f>>
\* an object with an attribute "response" holding v
Obj(v) == <<"obj", v>>
\* any other object (no "response" attribute, not a dict, not a str)
Opaque == <<"opaque">>

\* the dict with no key
EmptyDict == Dict([k \in {} |-> None])
EmptyStr == Raw("")

\* the outcome of a call: a returned value or a raised exception
Ret(v) == <<"ret", v>>
Raise(e) == <<"raise", e>>
Returned(r) == r[1] = "ret"
Raised(r) == r[1] = "raise"

hasattr_response(v) == v[1] = "obj"
isinstance_dict(v) == v[1] = "dict"
isinstance_str(v) == v[1] = "str"
\* isinstance(v, (int, float)): bool is a subclass of int
isinstance_number(v) == v[1] \in {"num", "bool"}

\* the value 1.0, in hundredths
ONE == 100

\* float(v) for an int, float or bool, in hundredths
float(v) == IF v[1] = "bool" THEN (IF v[2] THEN ONE ELSE 0) ELSE v[2]

\* bool(v): Python truthiness
Truthy(v) ==
    CASE v[1] = "none" -> FALSE
      [] v[1] = "num" -> v[2] # 0
      [] v[1] = "bool" -> v[2]
      [] v[1] = "str" -> v # EmptyStr
      [] v[1] = "list" -> Len(v[2]) > 0
      [] v[1] = "dict" -> DOMAIN v[2] # {}
      [] OTHER -> TRUE

\* a or b
Or(a, b) == IF Truthy(a) THEN a ELSE b

\* getattr(v, "response", v)
getattr_response(v) == IF hasattr_response(v) THEN v[2] ELSE v

\* json.loads(s) for a str s
json_loads(s) == IF s[2][1] = "json" THEN Ret(s[2][2]) ELSE Raise("JSONDecodeError")

RECURSIVE Mentions(_, _)
\* whether the JSON text of v has the word w as a substring
Mentions(v, w) ==
    CASE v[1] = "dict" -> \E k \in DOMAIN v[2] : k = w \/ Mentions(v[2][k], w)
      [] v[1] = "list" -> \E i \in 1..Len(v[2]) : Mentions(v[2][i], w)
      [] v[1] = "str" -> IF v[2][1] = "raw" THEN v[2][2] = w ELSE Mentions(v[2][2], w)
      [] OTHER -> FALSE

\* w in v, for a str w
In(w, v) ==
    CASE v[1] = "dict" -> Ret(w \in DOMAIN v[2])
      [] v[1] = "list" -> Ret(\E i \in 1..Len(v[2]) : v[2][i] = Raw(w))
      [] v[1] = "str" -> Ret(Mentions(v, w))
      [] OTHER -> Raise("TypeError")

\* v[k], for a str k
Subscript(v, k) ==
    IF v[1] = "dict"
    THEN (IF k \in DOMAIN v[2] THEN Ret(v[2][k]) ELSE Raise("KeyError"))
    ELSE Raise("TypeError")

(***************************************************************************)
(* Response normalization helpers.                                         *)
(***************************************************************************)
RECURSIVE _to_dict(_)
_to_dict(maybe_obj) ==
    IF hasattr_response(maybe_obj) THEN _to_dict(maybe_obj[2])
    ELSE IF isinstance_dict(maybe_obj) THEN maybe_obj
    ELSE IF isinstance_str(maybe_obj)
         THEN (IF Returned(json_loads(maybe_obj)) THEN json_loads(maybe_obj)[2] ELSE None)
    ELSE None

\* "score" in d and isinstance(d["score"], (int, float)), for a dict d
NumericScoreIn(d) == "score" \in DOMAIN d[2] /\ isinstance_number(d[2]["score"])

\* the function's outcome: Ret(a float or None), or the exception it raises
_extract_score(payload) ==
    LET top == In("score", payload)
        nested == In("response", payload)
    IN  IF Raised(top) THEN top
        ELSE IF top[2] /\ Raised(Subscript(payload, "score")) THEN Subscript(payload, "score")
        ELSE IF top[2] /\ isinstance_number(Subscript(payload, "score")[2])
             THEN Ret(Num(float(Subscript(payload, "score")[2])))
        ELSE IF Raised(nested) THEN nested
        ELSE IF nested[2] /\ Raised(Subscript(payload, "response")) THEN Subscript(payload, "response")
        ELSE IF nested[2] /\ isinstance_dict(Subscript(payload, "response")[2])
                /\ NumericScoreIn(Subscript(payload, "response")[2])
             THEN Ret(Num(float(Subscript(payload, "response")[2][2]["score"])))
        ELSE Ret(None)

(***************************************************************************)
(* Models.                                                                 *)
(***************************************************************************)
\* the table, in insertion order: <<finding name, model id or None>>
FINDING_MODELS == <<
    <<"Atelectasis", Raw("mc_chestradiography_atelectasis:v1.20250828")>>,
    <<"Cardiomegaly", Raw("mc_chestradiography_cardiomegaly:v1.20250828")>>,
    <<"Pleural Effusion", Raw("mc_chestradiography_pleural_effusion:v1.20250828")>>,
    <<"Pneumothorax", Raw("mc_chestradiography_pneumothorax:v1.20250828")>>,
    <<"Consolidation", Raw("mc_chestradiography_air_space_opacity:v1.20250828")>>,
    <<"Lung Opacity", Raw("mc_chestradiography_air_space_opacity:v1.20250828")>>,
    <<"Infiltration", Raw("mc_chestradiography_air_space_opacity:v1.20250828")>>,
    <<"ILD", Raw("mc_chestradiography_interstitial_thickening:v1.20250828")>>,
    <<"Pulmonary Fibrosis", Raw("mc_chestradiography_interstitial_thickening:v1.20250828")>>,
    <<"Aortic Enlargement", None>>,
    <<"Calcification", None>>,
    <<"Pleural Thickening", None>>,
    <<"Normal", None>> >>

CRITICAL_FINDINGS == {"Pneumothorax", "Pleural Effusion"}
VLM_MODEL_ID == Raw("cxr-vlm-experimental")

FindingNames == {FINDING_MODELS[i][1] : i \in 1..Len(FINDING_MODELS)}

\* {k: FINDING_MODELS[k] for k in FINDING_MODELS if k in S}, in the table's order
RECURSIVE SubTable(_, _)
SubTable(S, i) ==
    IF i > Len(FINDING_MODELS) THEN <<>>
    ELSE IF FINDING_MODELS[i][1] \in S
         THEN <<FINDING_MODELS[i]>> \o SubTable(S, i + 1)
         ELSE SubTable(S, i + 1)

(***************************************************************************)
(* The client.                                                             *)
(***************************************************************************)
\* get_api_key(): the key, or RuntimeError when the variable is unset or empty
get_api_key(key) == IF key THEN Ret(Raw("key")) ELSE Raise("RuntimeError")

\* get_hoppr() under lru_cache: the cached client, else a client built with the key
get_hoppr(cached, key) ==
    IF cached THEN Ret(Opaque)
    ELSE IF Raised(get_api_key(key)) THEN get_api_key(key)
    ELSE Ret(Opaque)

\* the cache after get_hoppr(): a raised call caches nothing
CacheAfter(cached, key) == cached \/ Returned(get_hoppr(cached, key))

(***************************************************************************)
(* Study creation and image upload.                                        *)
(***************************************************************************)
\* a study object with an attribute "id"
Study(id) == <<"study", id>>

\* str(v) for the ids of the model: a str is itself
str(v) == v

extract_study_id(study_obj) ==
    IF study_obj[1] = "study" THEN Ret(study_obj[2])
    ELSE IF isinstance_dict(study_obj) /\ "id" \in DOMAIN study_obj[2]
         THEN Ret(str(study_obj[2]["id"]))
    ELSE Raise("RuntimeError")

\* out: the outcome of hoppr.create_study(name)
create_study(cached, key, out) ==
    IF Raised(get_hoppr(cached, key)) THEN get_hoppr(cached, key)
    ELSE IF Raised(out) THEN out
    ELSE extract_study_id(out[2])

\* the call styles of hoppr.add_study_image, in the order add_image tries them
UploadStyles == <<"positional", "kw_data", "kw_image_bytes">>

\* the fallback going on to the next style after any exception
RECURSIVE add_image_from_any(_, _, _)
add_image_from_any(k, outs, tried) ==
    LET now == Append(tried, UploadStyles[k]) IN
    IF Returned(outs[k]) THEN [res |-> Ret(None), attempts |-> now]
    ELSE IF k = Len(UploadStyles) THEN [res |-> Raise("RuntimeError"), attempts |-> now]
    ELSE add_image_from_any(k + 1, outs, now)

\* after the try blocks from the k-th on, given each style's outcome in outs
\* (Ret(None), or the exception the SDK raises): the result and the styles attempted
RECURSIVE add_image_from(_, _, _)
add_image_from(k, outs, tried) ==
    LET now == Append(tried, UploadStyles[k]) IN
    IF Returned(outs[k]) THEN [res |-> Ret(None), attempts |-> now]
    ELSE IF outs[k][2] # "TypeError" THEN [res |-> outs[k], attempts |-> now]
    ELSE IF k = Len(UploadStyles) THEN [res |-> Raise("RuntimeError"), attempts |-> now]
    ELSE add_image_from(k + 1, outs, now)

add_image(cached, key, outs) ==
    IF Raised(get_hoppr(cached, key))
    THEN [res |-> get_hoppr(cached, key), attempts |-> <<>>]
    ELSE add_image_from(1, outs, <<>>)

(***************************************************************************)
(* Core inference (simple).                                                *)
(***************************************************************************)
\* scores[name] = s
SetScore(scores, name, s) ==
    [k \in DOMAIN scores \cup {name} |-> IF k = name THEN s ELSE scores[k]]

NoScores == [k \in {} |-> 0]

\* the body of the try statement of run_classifiers for one finding, out being the
\* outcome of hoppr.prompt_model: the scores after it
ClassifierBody(scores, name, out) ==
    IF Raised(out) THEN scores
    ELSE LET resp == out[2]
             payload == Or(_to_dict(resp), _to_dict(getattr_response(resp)))
             s == _extract_score(payload)
         IN  IF ~Truthy(payload) THEN scores
             ELSE IF Raised(s) THEN scores
             ELSE IF s[2] # None THEN SetScore(scores, name, s[2][2])
             ELSE scores

\* the loop leaving at the first call that raises
RECURSIVE ClassifierLoop_abort(_, _, _, _)
ClassifierLoop_abort(models, outs, i, acc) ==
    IF i > Len(models) THEN acc
    ELSE IF ~Truthy(models[i][2]) THEN ClassifierLoop_abort(models, outs, i + 1, acc)
    ELSE IF Raised(outs[i])
         THEN [scores |-> acc.scores,
               calls |-> Append(acc.calls, <<"prompt_model", models[i][2], models[i][1]>>)]
    ELSE ClassifierLoop_abort(models, outs, i + 1,
            [scores |-> ClassifierBody(acc.scores, models[i][1], outs[i]),
             calls |-> Append(acc.calls, <<"prompt_model", models[i][2], models[i][1]>>)])

\* the for loop of run_classifiers from the i-th entry of models on; outs[i] is the
\* outcome of the call for the i-th entry; acc holds the scores and the calls so far
RECURSIVE ClassifierLoop(_, _, _, _)
ClassifierLoop(models, outs, i, acc) ==
    IF i > Len(models) THEN acc
    ELSE IF ~Truthy(models[i][2]) THEN ClassifierLoop(models, outs, i + 1, acc)
    ELSE ClassifierLoop(models, outs, i + 1,
            [scores |-> ClassifierBody(acc.scores, models[i][1], outs[i]),
             calls |-> Append(acc.calls, <<"prompt_model", models[i][2], models[i][1]>>)])

run_classifiers(cached, key, models, outs) ==
    IF Raised(get_hoppr(cached, key))
    THEN [res |-> get_hoppr(cached, key), calls |-> <<>>]
    ELSE LET end == ClassifierLoop(models, outs, 1, [scores |-> NoScores, calls |-> <<>>])
         IN  [res |-> Ret(end.scores), calls |-> end.calls]

\* "findings" in d and isinstance(d["findings"], str), for a dict d
TextFindingsIn(d) == "findings" \in DOMAIN d[2] /\ isinstance_str(d[2]["findings"])

\* run_vlm without the except clause
VlmBody_no_except(out) ==
    IF Raised(out) THEN out
    ELSE Ret(EmptyStr)

\* the try statement of run_vlm, out being the outcome of hoppr.prompt_model
VlmBody(out) ==
    IF Raised(out) THEN Ret(EmptyStr)
    ELSE LET resp == out[2]
             payload == Or(_to_dict(resp), _to_dict(getattr_response(resp)))
         IN  IF isinstance_dict(payload) /\ TextFindingsIn(payload)
             THEN Ret(payload[2]["findings"])
             ELSE IF isinstance_dict(payload) /\ "response" \in DOMAIN payload[2]
                     /\ isinstance_dict(payload[2]["response"])
                     /\ TextFindingsIn(payload[2]["response"])
             THEN Ret(payload[2]["response"][2]["findings"])
             ELSE Ret(EmptyStr)

run_vlm(cached, key, out) ==
    IF Raised(get_hoppr(cached, key))
    THEN [res |-> get_hoppr(cached, key), calls |-> <<>>]
    ELSE [res |-> VlmBody(out), calls |-> << <<"prompt_model", VLM_MODEL_ID, "vlm">> >>]

(***************************************************************************)
(* Debuggable inference (with raw payloads).                               *)
(***************************************************************************)
\* {"error": str(e)}, e being named by its class
ErrorDescriptor(e) == Dict([k \in {"error"} |-> Raw(e)])

\* {"note": "empty or unparsable payload"}
NoteDescriptor == Dict([k \in {"note"} |-> Raw("empty or unparsable payload")])

\* payloads[name] = v
SetPayload(payloads, name, v) ==
    [k \in DOMAIN payloads \cup {name} |-> IF k = name THEN v ELSE payloads[k]]

NoPayloads == [k \in {} |-> None]

\* the body without the isinstance guard in front of _extract_score
PayloadBody_unguarded(acc, name, out) ==
    IF Raised(out)
    THEN [scores |-> acc.scores,
          payloads |-> SetPayload(acc.payloads, name, ErrorDescriptor(out[2]))]
    ELSE LET resp == out[2]
             payload == Or(Or(_to_dict(resp), _to_dict(getattr_response(resp))), EmptyDict)
             s == _extract_score(payload)
         IN  IF Raised(s)
             THEN [scores |-> acc.scores,
                   payloads |-> SetPayload(acc.payloads, name, ErrorDescriptor(s[2]))]
             ELSE [scores |-> IF s[2] # None THEN SetScore(acc.scores, name, s[2][2])
                              ELSE acc.scores,
                   payloads |-> SetPayload(acc.payloads, name,
                                    IF Truthy(payload) THEN payload ELSE NoteDescriptor)]

\* the body of the try statement of run_classifiers_with_payload for one finding,
\* out being the outcome of hoppr.prompt_model: the scores and payloads after it
PayloadBody(acc, name, out) ==
    IF Raised(out)
    THEN [scores |-> acc.scores,
          payloads |-> SetPayload(acc.payloads, name, ErrorDescriptor(out[2]))]
    ELSE LET resp == out[2]
             payload == Or(Or(_to_dict(resp), _to_dict(getattr_response(resp))), EmptyDict)
             s == IF isinstance_dict(payload) THEN _extract_score(payload) ELSE Ret(None)
         IN  IF Raised(s)
             THEN [scores |-> acc.scores,
                   payloads |-> SetPayload(acc.payloads, name, ErrorDescriptor(s[2]))]
             ELSE [scores |-> IF s[2] # None THEN SetScore(acc.scores, name, s[2][2])
                              ELSE acc.scores,
                   payloads |-> SetPayload(acc.payloads, name,
                                    IF Truthy(payload) THEN payload ELSE NoteDescriptor)]

\* the for loop of run_classifiers_with_payload from the i-th entry of models on
RECURSIVE PayloadLoop(_, _, _, _)
PayloadLoop(models, outs, i, acc) ==
    IF i > Len(models) THEN acc
    ELSE IF ~Truthy(models[i][2]) THEN PayloadLoop(models, outs, i + 1, acc)
    ELSE LET body == PayloadBody(acc, models[i][1], outs[i])
         IN  PayloadLoop(models, outs, i + 1,
                [scores |-> body.scores, payloads |-> body.payloads,
                 calls |-> Append(acc.calls, <<"prompt_model", models[i][2], models[i][1]>>)])

\* the result is the pair <<scores, payloads>>
run_classifiers_with_payload(cached, key, models, outs) ==
    IF Raised(get_hoppr(cached, key))
    THEN [res |-> get_hoppr(cached, key), calls |-> <<>>]
    ELSE LET end == PayloadLoop(models, outs, 1,
                        [scores |-> NoScores, payloads |-> NoPayloads, calls |-> <<>>])
         IN  [res |-> Ret(<<end.scores, end.payloads>>), calls |-> end.calls]

\* the try statement of run_vlm_with_payload, out being the outcome of
\* hoppr.prompt_model: the pair <<findings, payload>>
VlmPayloadBody(out) ==
    IF Raised(out) THEN Ret(<<EmptyStr, ErrorDescriptor(out[2])>>)
    ELSE LET resp == out[2]
             payload == Or(Or(_to_dict(resp), _to_dict(getattr_response(resp))), EmptyDict)
             findings ==
                 IF ~isinstance_dict(payload) THEN EmptyStr
                 ELSE IF TextFindingsIn(payload) THEN payload[2]["findings"]
                 ELSE IF "response" \in DOMAIN payload[2]
                         /\ isinstance_dict(payload[2]["response"])
                         /\ TextFindingsIn(payload[2]["response"])
                      THEN payload[2]["response"][2]["findings"]
                 ELSE EmptyStr
         IN  Ret(<<findings, IF Truthy(payload) THEN payload ELSE NoteDescriptor>>)

run_vlm_with_payload(cached, key, out) ==
    IF Raised(get_hoppr(cached, key))
    THEN [res |-> get_hoppr(cached, key), calls |-> <<>>]
    ELSE [res |-> VlmPayloadBody(out),
          calls |-> << <<"prompt_model", VLM_MODEL_ID, "vlm">> >>]

(***************************************************************************)
(* Scoring helpers.                                                        *)
(***************************************************************************)
\* the weights 1.25 and 1.0, in hundredths
CRITICAL_WEIGHT == 125
OTHER_WEIGHT == 100

Weight(k) == IF k \in CRITICAL_FINDINGS THEN CRITICAL_WEIGHT ELSE OTHER_WEIGHT

\* max(s) of a non-empty set of numbers
Max(s) == CHOOSE m \in s : \A v \in s : m >= v

\* compute_urgency clamped to 1.0
compute_urgency_capped(scores) ==
    LET vals == {Weight(k) * scores[k] : k \in DOMAIN scores}
    IN  IF vals # {} THEN (IF Max(vals) > 100 * ONE THEN 100 * ONE ELSE Max(vals)) ELSE 0

\* compute_urgency taking the least weighted score
compute_urgency_min(scores) ==
    LET vals == {Weight(k) * scores[k] : k \in DOMAIN scores}
    IN  IF vals # {} THEN (CHOOSE m \in vals : \A v \in vals : m <= v) ELSE 0

\* in ten-thousandths
compute_urgency(scores) ==
    LET vals == {Weight(k) * scores[k] : k \in DOMAIN scores}
    IN  IF vals # {} THEN Max(vals) ELSE 0

(***************************************************************************)
(* Pipeline helpers.                                                       *)
(***************************************************************************)
\* the remote calls of one file, each tagged with the file
Tagged(file, cs) == [i \in 1..Len(cs) |-> <<file>> \o cs[i]]

\* process_file asking for the narrative before the classifiers
process_file_vlm_first(cached, key, file, models, o) ==
    LET study_id == create_study(cached, key, o.create)
        cached1 == CacheAfter(cached, key)
        c1 == IF Raised(get_hoppr(cached, key)) THEN <<>> ELSE << <<"create_study">> >>
        up == add_image(cached1, key, o.upload)
        c2 == c1 \o [i \in 1..Len(up.attempts) |-> <<"add_study_image", up.attempts[i]>>]
        vlm == run_vlm(cached1, key, o.vlm)
        cl == run_classifiers(cached1, key, models, o.cls)
        urgency == compute_urgency(cl.res[2])
    IN  IF Raised(study_id) THEN [res |-> study_id, calls |-> Tagged(file, c1)]
        ELSE IF Raised(up.res) THEN [res |-> up.res, calls |-> Tagged(file, c2)]
        ELSE [res |-> Ret([study_id |-> study_id[2], file |-> file, urgency |-> urgency,
                           scores |-> cl.res[2], vlm |-> vlm.res[2]]),
              calls |-> Tagged(file, c2 \o vlm.calls \o cl.calls)]

\* process_file taking the urgency before the classifiers have run
process_file_urgency_first(cached, key, file, models, o) ==
    LET study_id == create_study(cached, key, o.create)
        cached1 == CacheAfter(cached, key)
        c1 == IF Raised(get_hoppr(cached, key)) THEN <<>> ELSE << <<"create_study">> >>
        up == add_image(cached1, key, o.upload)
        c2 == c1 \o [i \in 1..Len(up.attempts) |-> <<"add_study_image", up.attempts[i]>>]
        urgency == compute_urgency(NoScores)
        cl == run_classifiers(cached1, key, models, o.cls)
        vlm == run_vlm(cached1, key, o.vlm)
    IN  IF Raised(study_id) THEN [res |-> study_id, calls |-> Tagged(file, c1)]
        ELSE IF Raised(up.res) THEN [res |-> up.res, calls |-> Tagged(file, c2)]
        ELSE [res |-> Ret([study_id |-> study_id[2], file |-> file, urgency |-> urgency,
                           scores |-> cl.res[2], vlm |-> vlm.res[2]]),
              calls |-> Tagged(file, c2 \o cl.calls \o vlm.calls)]

\* o: the outcomes of the remote calls process_file makes, o.create of
\* create_study, o.upload[k] of the k-th upload style, o.cls[i] of the model
\* call for the i-th entry of models, o.vlm of the narrative call.
\* The result (the row, or the exception raised) and the remote calls made.
process_file(cached, key, file, models, o) ==
    LET study_id == create_study(cached, key, o.create)
        cached1 == CacheAfter(cached, key)
        c1 == IF Raised(get_hoppr(cached, key)) THEN <<>> ELSE << <<"create_study">> >>
        up == add_image(cached1, key, o.upload)
        c2 == c1 \o [i \in 1..Len(up.attempts) |-> <<"add_study_image", up.attempts[i]>>]
        cl == run_classifiers(cached1, key, models, o.cls)
        urgency == compute_urgency(cl.res[2])
        vlm == run_vlm(cached1, key, o.vlm)
    IN  IF Raised(study_id) THEN [res |-> study_id, calls |-> Tagged(file, c1)]
        ELSE IF Raised(up.res) THEN [res |-> up.res, calls |-> Tagged(file, c2)]
        ELSE [res |-> Ret([study_id |-> study_id[2], file |-> file, urgency |-> urgency,
                           scores |-> cl.res[2], vlm |-> vlm.res[2]]),
              calls |-> Tagged(file, c2 \o cl.calls \o vlm.calls)]

(***************************************************************************)
(* Bounded inputs.                                                         *)
(***************************************************************************)
\* how deep response objects nest in a reply
MaxDepth == 2
\* how many findings a model table drawn for run_classifiers holds
MaxTable == 2

\* how many files one batch upload holds
MaxFiles == 2
\* how many rows the triage list grows to
MaxRows == 2

Missing == <<"missing">>

\* the dict holding the given value under each key whose value is not Missing
MkDict(score, findings, response) ==
    LET field == [k \in {"score", "findings", "response"} |->
                    IF k = "score" THEN score
                    ELSE IF k = "findings" THEN findings ELSE response]
    IN  Dict([k \in {x \in DOMAIN field : field[x] # Missing} |-> field[k]])

ScoreFieldVals == {Num(0), Num(40), Num(90), Bool(TRUE), Raw("clear lungs")}
FindingsFieldVals == {Raw("clear lungs"), Raw("effusion seen"), Num(40)}

InnerDicts ==
    {MkDict(s, f, Missing) : s \in ScoreFieldVals \cup {Missing},
                             f \in FindingsFieldVals \cup {Missing}}

Dicts ==
    {MkDict(s, f, r) : s \in ScoreFieldVals \cup {Missing},
                       f \in FindingsFieldVals \cup {Missing},
                       r \in InnerDicts \cup {Raw("clear lungs"), Missing}}

\* the dicts drawn as JSON text as well
TextDicts ==
    InnerDicts
    \cup {MkDict(s, Missing, r) : s \in {Missing, None, Num(90)},
                                  r \in {MkDict(Num(40), Missing, Missing),
                                         MkDict(Missing, Raw("effusion seen"), Missing)}}

\* JSON texts that do not encode an object, texts that are not JSON, other values
ScalarTexts ==
    {Json(None), Json(Num(0)), Json(Num(40)), Json(Bool(TRUE)), Json(Raw("clear lungs")),
     Json(Raw("score")), Json(List(<<>>)), Json(List(<<Raw("score")>>)),
     Json(List(<<Num(40)>>)),
     Json(Json(MkDict(Num(90), Missing, Missing))),
     Json(Json(MkDict(Missing, Raw("clear lungs"), Missing)))}
RawTexts == {Raw(""), Raw("clear lungs"), Raw("score")}
OtherValues == {None, Num(40), Opaque, List(<<Num(40)>>)}

SampleReplies ==
    {MkDict(Num(90), Missing, Missing),
     MkDict(Num(0), Missing, Missing),
     Obj(Json(MkDict(Missing, Missing, MkDict(Num(40), Missing, Missing)))),
     MkDict(Missing, Raw("clear lungs"), Missing),
     Json(Num(40)),
     Raw("clear lungs")}

\* the values drawn inside response objects as well
Wrapped ==
    TextDicts \cup {Json(d) : d \in TextDicts} \cup ScalarTexts \cup RawTexts \cup OtherValues

RECURSIVE Nested(_)
Nested(n) == IF n = 0 THEN Wrapped ELSE Wrapped \cup {Obj(v) : v \in Nested(n - 1)}

\* what hoppr.prompt_model may return
Replies == Dicts \cup SampleReplies \cup Nested(MaxDepth)

RemoteErrors == {Raise("HOPPRError")}
Outcomes(S) == RemoteErrors \cup {Ret(r) : r \in S}

\* the values _to_dict hands to _extract_score: all but None
Payloads == {_to_dict(r) : r \in Replies} \ {None}

ScoreVals == {0, 40, 80, 90}
ScoredNames == {"Pneumothorax", "Pleural Effusion", "Cardiomegaly", "ILD"}
ScoreMaps == UNION {[S -> ScoreVals] : S \in SUBSET ScoredNames}

ModelTables ==
    {SubTable(S, 1) : S \in {T \in SUBSET FindingNames : Cardinality(T) <= MaxTable}}

\* the entries of a table that run_classifiers calls a model for
Called(models) == {i \in 1..Len(models) : Truthy(models[i][2])}

\* outcomes of the calls of one run_classifiers: any reply for a table of one
\* finding, the samples for a longer one
TableOutcomes(models) ==
    [Called(models) -> IF Len(models) = 1 THEN Outcomes(Replies) ELSE Outcomes(SampleReplies)]

UploadOutcomes == {Ret(None), Raise("TypeError"), Raise("HOPPRError")}

StudyIds == {"st-1", "st-2"}
StudyOutcomes ==
    RemoteErrors \cup {Ret(Study(i)) : i \in StudyIds}
    \cup {Ret(Dict([k \in {"id"} |-> i])) : i \in StudyIds} \cup {Ret(None), Ret(EmptyDict)}

\* the calls drawn: a function and its arguments, run_classifiers over the given
\* model tables
Inputs(tables) ==
    {<<"_to_dict", x>> : x \in Replies}
    \cup {<<"_extract_score", p>> : p \in Payloads}
    \cup {<<"compute_urgency", m>> : m \in ScoreMaps}
    \cup {<<"create_study", o>> : o \in StudyOutcomes}
    \cup {<<"add_image", o>> : o \in [1..Len(UploadStyles) -> UploadOutcomes]}
    \cup UNION {{<<"run_classifiers", t, o>> : o \in TableOutcomes(t)} : t \in tables}
    \cup {<<"run_vlm", o>> : o \in Outcomes(Replies)}

(***************************************************************************)
(* SpecFn: one call of one function.                                       *)
(***************************************************************************)
Call(fn, arg, res, remote) == [fn |-> fn, arg |-> arg, res |-> res, calls |-> remote]

DefaultActive == {"Pneumothorax", "Pleural Effusion", "Cardiomegaly"}

InitApp ==
    /\ active = DefaultActive
    /\ mode = "Technician"
    /\ triage_rows = <<>>
    /\ loop = <<>>
    /\ calls = <<>>
    /\ status = [run |-> "start", result |-> "ok", files |-> 0, appended |-> {}, failed |-> {}]
    /\ processed = <<>>
    /\ drawn = <<>>
    /\ sliders = <<>>
    /\ report = <<>>

\* the functions that obtain the client
UsesClient == {"create_study", "add_image", "run_classifiers", "run_vlm"}

InitFn ==
    /\ InitApp
    /\ input \in Inputs(ModelTables)
    /\ hist = <<>>
    /\ api_key \in IF input[1] \in UsesClient THEN BOOLEAN ELSE {TRUE}
    /\ hoppr \in {FALSE, api_key}

Fresh(fn) == input[1] = fn /\ hist = <<>>

Call_to_dict ==
    /\ Fresh("_to_dict")
    /\ hist' = <<Call("_to_dict", input[2], Ret(_to_dict(input[2])), <<>>)>>
    /\ UNCHANGED <<api_key, hoppr, appVars, input>>

\* the normalizer applied to its own result
Call_to_dict_again ==
    /\ input[1] = "_to_dict" /\ Len(hist) = 1
    /\ hist[1].res # Ret(None)
    /\ hist' = Append(hist, Call("_to_dict", hist[1].res[2], Ret(_to_dict(hist[1].res[2])), <<>>))
    /\ UNCHANGED <<api_key, hoppr, appVars, input>>

Call_extract_score ==
    /\ Fresh("_extract_score")
    /\ hist' = <<Call("_extract_score", input[2], _extract_score(input[2]), <<>>)>>
    /\ UNCHANGED <<api_key, hoppr, appVars, input>>

Call_compute_urgency ==
    /\ Fresh("compute_urgency")
    /\ hist' = <<Call("compute_urgency", input[2], Ret(compute_urgency(input[2])), <<>>)>>
    /\ UNCHANGED <<api_key, hoppr, appVars, input>>

Call_create_study ==
    /\ Fresh("create_study")
    /\ hist' = <<Call("create_study", input[2], create_study(hoppr, api_key, input[2]),
                      IF Raised(get_hoppr(hoppr, api_key)) THEN <<>> ELSE << <<"create_study">> >>)>>
    /\ hoppr' = CacheAfter(hoppr, api_key)
    /\ UNCHANGED <<api_key, appVars, input>>

Call_add_image ==
    /\ Fresh("add_image")
    /\ LET r == add_image(hoppr, api_key, input[2])
       IN  hist' = <<Call("add_image", input[2], r.res, r.attempts)>>
    /\ hoppr' = CacheAfter(hoppr, api_key)
    /\ UNCHANGED <<api_key, appVars, input>>

Call_run_classifiers ==
    /\ Fresh("run_classifiers")
    /\ LET r == run_classifiers(hoppr, api_key, input[2], input[3])
       IN  hist' = <<Call("run_classifiers", <<input[2], input[3]>>, r.res, r.calls)>>
    /\ hoppr' = CacheAfter(hoppr, api_key)
    /\ UNCHANGED <<api_key, appVars, input>>

Call_run_vlm ==
    /\ Fresh("run_vlm")
    /\ LET r == run_vlm(hoppr, api_key, input[2])
       IN  hist' = <<Call("run_vlm", input[2], r.res, r.calls)>>
    /\ hoppr' = CacheAfter(hoppr, api_key)
    /\ UNCHANGED <<api_key, appVars, input>>

\* the debug variant called after the simple one, on the same table and the same
\* remote outcomes
Call_run_classifiers_with_payload ==
    /\ input[1] = "run_classifiers" /\ Len(hist) = 1
    /\ LET r == run_classifiers_with_payload(hoppr, api_key, input[2], input[3])
       IN  hist' = Append(hist, Call("run_classifiers_with_payload", <<input[2], input[3]>>,
                                     r.res, r.calls))
    /\ hoppr' = CacheAfter(hoppr, api_key)
    /\ UNCHANGED <<api_key, appVars, input>>

Call_run_vlm_with_payload ==
    /\ input[1] = "run_vlm" /\ Len(hist) = 1
    /\ LET r == run_vlm_with_payload(hoppr, api_key, input[2])
       IN  hist' = Append(hist, Call("run_vlm_with_payload", input[2], r.res, r.calls))
    /\ hoppr' = CacheAfter(hoppr, api_key)
    /\ UNCHANGED <<api_key, appVars, input>>

NextFn ==
    \/ Call_to_dict
    \/ Call_to_dict_again
    \/ Call_extract_score
    \/ Call_compute_urgency
    \/ Call_create_study
    \/ Call_add_image
    \/ Call_run_classifiers
    \/ Call_run_vlm
    \/ Call_run_classifiers_with_payload
    \/ Call_run_vlm_with_payload

SpecFn == InitFn /\ [][NextFn]_vars

(***************************************************************************)
(* Spec: the Streamlit session of app.py.                                  *)
(***************************************************************************)
\* the checkboxes the user of the model toggles
Toggleable == DefaultActive

\* replies of the models in a session: one with a score, one without
AppReplies == {MkDict(Num(90), Missing, Missing), MkDict(Missing, Raw("clear lungs"), Missing)}
AppVlmReplies == {MkDict(Missing, Raw("clear lungs"), Missing)}

TypeErr == Raise("TypeError")
AllOk == <<Ret(None), Ret(None), Ret(None)>>
OkUploads == {AllOk}
BadUploads == {<<TypeErr, TypeErr, TypeErr>>}
OkStudies == {Ret(Study("st-1"))}
BadStudies == {Raise("HOPPRError")}

\* the outcomes of the remote calls of one case whose study creation or upload
\* fails; the calls that are not reached are given one outcome
FailingOutcomes(models) ==
    LET unreached == [i \in Called(models) |-> Raise("HOPPRError")]
    IN  {[create |-> c, upload |-> AllOk, cls |-> unreached, vlm |-> Raise("HOPPRError")] :
            c \in BadStudies}
        \cup {[create |-> c, upload |-> u, cls |-> unreached, vlm |-> Raise("HOPPRError")] :
                c \in OkStudies, u \in BadUploads}

\* the outcomes of the remote calls of one file of a batch: the failing ones, each
\* classifier raising or replying with the narrative returned, every model call
\* raising
FileOutcomes(models) ==
    FailingOutcomes(models)
    \cup {[create |-> c, upload |-> u, cls |-> f, vlm |-> Ret(v)] :
            c \in OkStudies, u \in OkUploads,
            f \in [Called(models) -> Outcomes(AppReplies)],
            v \in AppVlmReplies}
    \cup {[create |-> c, upload |-> u, cls |-> [i \in Called(models) |-> e], vlm |-> e] :
            c \in OkStudies, u \in OkUploads, e \in RemoteErrors}

\* the outcomes of the remote calls of a single case: the failing ones, every
\* model raising, every model replying
SingleOutcomes(models) ==
    FailingOutcomes(models)
    \cup {[create |-> c, upload |-> u, cls |-> [i \in Called(models) |-> f], vlm |-> f] :
            c \in OkStudies, u \in OkUploads,
            f \in {Raise("HOPPRError"), Ret(MkDict(Num(90), Raw("clear lungs"), Missing))}}

\* how a script run stands: which handler ran, how it ended, and for a batch the
\* number of files, the files whose row was appended and the files that raised
Status(run, result, n, appended, failed) ==
    [run |-> run, result |-> result, files |-> n, appended |-> appended, failed |-> failed]

Init ==
    /\ api_key \in BOOLEAN
    /\ hoppr = FALSE
    /\ InitApp
    /\ input = <<"session">>
    /\ hist = <<>>

\* the row put in front
AppendRow_front(rows, row) == <<row>> \o rows

\* st.session_state.triage_rows.append(row)
AppendRow(rows, row) == Append(rows, row)

\* st.session_state.triage_rows = []
ClearedRows(rows) == <<>>

\* a click on "Run Batch Inference" with n files in the uploader: the checks
\* before the loop
RunBatch ==
    /\ loop = <<>> /\ mode = "Technician"
    /\ \E n \in 0..MaxFiles :
        /\ Len(triage_rows) + n <= MaxRows
        /\ IF n = 0
           THEN loop' = <<>> /\ status' = Status("batch", "st.error", n, {}, {})
           ELSE IF SubTable(active, 1) = <<>>
           THEN loop' = <<>> /\ status' = Status("batch", "st.error", n, {}, {})
           ELSE /\ loop' = [files |-> n, next |-> 1, models |-> SubTable(active, 1)]
                /\ status' = Status("batch", "running", n, {}, {})
    /\ calls' = <<>>
    /\ drawn' = <<>>
    /\ UNCHANGED <<api_key, hoppr, active, mode, triage_rows, processed, fnVars, sliders, report>>

\* one iteration of "for f in files": process_file, then the append; an exception
\* of process_file ends the script run
BatchFile ==
    /\ loop # <<>>
    /\ \E o \in FileOutcomes(loop.models) :
        LET r == process_file(hoppr, api_key, loop.next, loop.models, o)
            last == loop.next = loop.files
        IN  /\ calls' = calls \o r.calls
            /\ drawn' = Append(drawn, o)
            /\ IF Raised(r.res)
               THEN /\ triage_rows' = triage_rows
                    /\ processed' = processed
                    /\ loop' = <<>>
                    /\ status' = [status EXCEPT !.result = "exception",
                                                !.failed = @ \cup {loop.next}]
               ELSE /\ triage_rows' = AppendRow(triage_rows, r.res[2])
                    /\ processed' = Append(processed, r.res[2])
                    /\ loop' = IF last THEN <<>> ELSE [loop EXCEPT !.next = @ + 1]
                    /\ status' = [status EXCEPT !.result = IF last THEN "ok" ELSE "running",
                                                !.appended = @ \cup {loop.next}]
    /\ hoppr' = CacheAfter(hoppr, api_key)
    /\ UNCHANGED <<api_key, active, mode, fnVars, sliders, report>>

\* a click on "Clear Queue"
ClearQueue ==
    /\ loop = <<>> /\ mode = "Technician"
    /\ triage_rows' = ClearedRows(triage_rows)
    /\ processed' = <<>>
    /\ calls' = <<>>
    /\ drawn' = <<>>
    /\ status' = Status("clear", "ok", 0, {}, {})
    /\ UNCHANGED <<api_key, hoppr, active, mode, loop, fnVars, sliders, report>>

\* the single-case handler: the result shown (Ret(<<scores, vlm text, urgency>>), or
\* the exception caught and reported with st.error) and the remote calls made
single_case(cached, key, models, o) ==
    LET study_id == create_study(cached, key, o.create)
        cached1 == CacheAfter(cached, key)
        c1 == IF Raised(get_hoppr(cached, key)) THEN <<>> ELSE << <<"create_study">> >>
        up == add_image(cached1, key, o.upload)
        c2 == c1 \o [i \in 1..Len(up.attempts) |-> <<"add_study_image", up.attempts[i]>>]
        cl == run_classifiers(cached1, key, models, o.cls)
        vlm == run_vlm(cached1, key, o.vlm)
    IN  IF Raised(study_id) THEN [res |-> study_id, calls |-> Tagged(0, c1)]
        ELSE IF Raised(up.res) THEN [res |-> up.res, calls |-> Tagged(0, c2)]
        ELSE [res |-> Ret(<<cl.res[2], vlm.res[2], compute_urgency(cl.res[2])>>),
              calls |-> Tagged(0, c2 \o cl.calls \o vlm.calls)]

\* a click on "Run Inference (Single Case)", a file being uploaded or not
RunSingle ==
    /\ loop = <<>> /\ mode = "Technician"
    /\ \E uploaded \in BOOLEAN :
        IF ~uploaded \/ SubTable(active, 1) = <<>>
        THEN /\ status' = Status("single", "st.error", 0, {}, {})
             /\ calls' = <<>>
             /\ drawn' = <<>>
             /\ hoppr' = hoppr
        ELSE \E o \in SingleOutcomes(SubTable(active, 1)) :
                LET r == single_case(hoppr, api_key, SubTable(active, 1), o)
                IN  /\ status' = Status("single", IF Raised(r.res) THEN "st.error" ELSE "ok",
                                        1, {}, {})
                    /\ calls' = r.calls
                    /\ drawn' = <<o>>
                    /\ hoppr' = CacheAfter(hoppr, api_key)
    /\ UNCHANGED <<api_key, active, mode, triage_rows, loop, processed, fnVars, sliders, report>>

\* a click on a finding's checkbox
ToggleFinding ==
    /\ loop = <<>>
    /\ \E name \in Toggleable :
        active' = IF name \in active THEN active \ {name} ELSE active \cup {name}
    /\ calls' = <<>>
    /\ drawn' = <<>>
    /\ status' = Status("rerun", "ok", 0, {}, {})
    /\ UNCHANGED <<api_key, hoppr, mode, triage_rows, loop, processed, fnVars, sliders, report>>

\* the defaults of the patient view's sliders, in hundredths
DEFAULT_FLAG == 50
DEFAULT_MAYBE == 35

\* the "View" radio; the patient view shows its sliders at their defaults, the
\* technician view has none
SwitchMode ==
    /\ loop = <<>>
    /\ mode' = IF mode = "Technician" THEN "Patient" ELSE "Technician"
    /\ calls' = <<>>
    /\ drawn' = <<>>
    /\ status' = Status("rerun", "ok", 0, {}, {})
    /\ sliders' = IF mode = "Technician"
                  THEN [flag |-> DEFAULT_FLAG, maybe |-> DEFAULT_MAYBE]
                  ELSE <<>>
    /\ report' = <<>>
    /\ UNCHANGED <<api_key, hoppr, active, triage_rows, loop, processed, fnVars>>

\* any other widget change (the study selectbox, a download, an upload): the
\* script runs again with no button pressed
Rerun ==
    /\ loop = <<>>
    /\ calls' = <<>>
    /\ drawn' = <<>>
    /\ status' = Status("rerun", IF sliders # <<>> /\ "maybe" \notin DOMAIN sliders
                                  THEN "exception" ELSE "ok", 0, {}, {})
    /\ report' = <<>>
    /\ UNCHANGED <<api_key, hoppr, active, mode, triage_rows, loop, processed, sliders,
                   fnVars>>

Next ==
    \/ RunBatch
    \/ BatchFile
    \/ ClearQueue
    \/ RunSingle
    \/ ToggleFinding
    \/ SwitchMode
    \/ Rerun

Spec == Init /\ [][Next]_vars

(***************************************************************************)
(* SpecPatient: the patient view of app.py.                                *)
(***************************************************************************)
\* the values of the sliders, once both have returned one
flag_thr == sliders.flag
maybe_thr == sliders.maybe

\* the slider positions drawn, in hundredths
ThresholdGrid == {0, 20, 35, 50, 100}

\* what the sliders return in the script run that follows a move of the flag
\* slider to v: the maybe slider, given a new range, is back at its default; when
\* the default lies above the new range Streamlit either widens the range to hold
\* it or rejects the call, which ends the script run before maybe_thr is bound
SlidersAfterFlag(v) ==
    IF DEFAULT_MAYBE <= v
    THEN {[flag |-> v, maybe |-> DEFAULT_MAYBE]}
    ELSE {[flag |-> v, maybe |-> DEFAULT_MAYBE], [flag |-> v]}

\* the user moves the flag slider (its range is 0.0 to 1.0)
SetFlag ==
    /\ mode = "Patient"
    /\ \E v \in ThresholdGrid \ {flag_thr} : \E after \in SlidersAfterFlag(v) :
        /\ sliders' = after
        /\ status' = Status("rerun", IF "maybe" \in DOMAIN after THEN "ok" ELSE "exception",
                            0, {}, {})
    /\ calls' = <<>>
    /\ drawn' = <<>>
    /\ report' = <<>>
    /\ UNCHANGED <<api_key, hoppr, active, mode, triage_rows, loop, processed, fnVars>>

\* the user moves the maybe slider (its range is 0.0 to flag_thr)
SetMaybe ==
    /\ mode = "Patient" /\ "maybe" \in DOMAIN sliders
    /\ \E v \in ThresholdGrid \ {maybe_thr} :
        /\ 0 <= v /\ v <= flag_thr
        /\ sliders' = [sliders EXCEPT !.maybe = v]
    /\ calls' = <<>>
    /\ drawn' = <<>>
    /\ report' = <<>>
    /\ status' = Status("rerun", "ok", 0, {}, {})
    /\ UNCHANGED <<api_key, hoppr, active, mode, triage_rows, loop, processed, fnVars>>

\* the fixed bands, in hundredths
RED_FROM == 70
AMBER_FROM == 40

patient_verdict(score) ==
    IF score >= RED_FROM THEN <<"Needs prompt attention", "red">>
    ELSE IF score >= AMBER_FROM THEN <<"Possibility present", "amber">>
    ELSE <<"No strong signs", "green">>

is_likely_normal(scores, threshold) ==
    DOMAIN scores # {} /\ \A k \in DOMAIN scores : scores[k] < threshold

\* the tone shown for the score v: patient_verdict's, overridden by the thresholds
Tone(v, flag, maybe) ==
    IF v >= flag THEN "red"
    ELSE IF v >= maybe THEN "amber"
    ELSE "green"

\* the model id of a finding of FINDING_MODELS
ModelOf(name) ==
    FINDING_MODELS[CHOOSE i \in 1..Len(FINDING_MODELS) : FINDING_MODELS[i][1] = name][2]

\* the focused subset, in the order of the handler's list
PatientFindings == <<"Pneumothorax", "Pleural Effusion", "Cardiomegaly", "Consolidation", "ILD">>
patient_subset ==
    [i \in 1..Len(PatientFindings) |-> <<PatientFindings[i], ModelOf(PatientFindings[i])>>]

\* what the handler displays for the narrative, the scores and the payloads
PatientReport(text, vlm_payload, scores, payloads, flag, maybe) ==
    [text |-> text,
     scores |-> scores,
     normal |-> is_likely_normal(scores, maybe),
     verdicts |-> [k \in DOMAIN scores |-> patient_verdict(scores[k])[1]],
     tones |-> [k \in DOMAIN scores |-> Tone(scores[k], flag, maybe)],
     vlm_payload |-> vlm_payload,
     raw_payloads |-> payloads]

\* the patient handler on an uploaded file: what it displays (Ret(the report), or
\* the exception caught and reported with st.error) and the remote calls made
patient_case(cached, key, o, flag, maybe) ==
    LET study_id == create_study(cached, key, o.create)
        cached1 == CacheAfter(cached, key)
        c1 == IF Raised(get_hoppr(cached, key)) THEN <<>> ELSE << <<"create_study">> >>
        up == add_image(cached1, key, o.upload)
        c2 == c1 \o [i \in 1..Len(up.attempts) |-> <<"add_study_image", up.attempts[i]>>]
        cl == run_classifiers_with_payload(cached1, key, patient_subset, o.cls)
        vlm == run_vlm_with_payload(cached1, key, o.vlm)
    IN  IF Raised(study_id) THEN [res |-> study_id, calls |-> Tagged(0, c1)]
        ELSE IF Raised(up.res) THEN [res |-> up.res, calls |-> Tagged(0, c2)]
        ELSE [res |-> Ret(PatientReport(vlm.res[2][1], vlm.res[2][2],
                                        cl.res[2][1], cl.res[2][2], flag, maybe)),
              calls |-> Tagged(0, c2 \o cl.calls \o vlm.calls)]

\* replies of the classifiers in the patient view
PatientReplies == {MkDict(Num(20), Missing, Missing), MkDict(Num(50), Missing, Missing),
                   MkDict(Num(90), Missing, Missing)}

\* the classifier outcomes of a patient case: the first finding and the second
\* each raising or replying, the later findings ending as the second does
PatientClassifierOutcomes ==
    {f \in [Called(patient_subset) -> Outcomes(PatientReplies)] :
        \A i \in Called(patient_subset) : i > 2 => f[i] = f[2]}

\* the outcomes of the remote calls of a patient case: the failing ones, the
\* classifier outcomes with the narrative returned, every model call raising
PatientOutcomes ==
    FailingOutcomes(patient_subset)
    \cup {[create |-> c, upload |-> u, cls |-> f, vlm |-> Ret(v)] :
            c \in OkStudies, u \in OkUploads,
            f \in PatientClassifierOutcomes,
            v \in AppVlmReplies}
    \cup {[create |-> c, upload |-> u, cls |-> [i \in Called(patient_subset) |-> e], vlm |-> e] :
            c \in OkStudies, u \in OkUploads, e \in RemoteErrors}

\* the page after the handler ended with r: the report, or st.error
PatientShown(r) ==
    /\ status' = Status("patient", IF Raised(r.res) THEN "st.error" ELSE "ok", 1, {}, {})
    /\ calls' = r.calls
    /\ report' = IF Raised(r.res) THEN <<>> ELSE r.res[2]

\* a click on "Run Inference (Patient)", a file being uploaded or not
RunPatient ==
    /\ mode = "Patient" /\ "maybe" \in DOMAIN sliders
    /\ \E uploaded \in BOOLEAN :
        IF ~uploaded
        THEN /\ status' = Status("patient", "st.error", 0, {}, {})
             /\ calls' = <<>>
             /\ drawn' = <<>>
             /\ report' = <<>>
             /\ hoppr' = hoppr
        ELSE \E o \in PatientOutcomes :
                /\ PatientShown(patient_case(hoppr, api_key, o, flag_thr, maybe_thr))
                /\ drawn' = <<o>>
                /\ hoppr' = CacheAfter(hoppr, api_key)
    /\ UNCHANGED <<api_key, active, mode, triage_rows, loop, processed, sliders, fnVars>>

NextPatient ==
    \/ SwitchMode
    \/ SetMaybe
    \/ SetFlag
    \/ RunPatient
    \/ Rerun

SpecPatient == Init /\ [][NextPatient]_vars

(***************************************************************************)
(* Properties of the functions (checked under SpecFn).                     *)
(***************************************************************************)
\* the calls of fn made so far
CallsOf(fn) == {i \in 1..Len(hist) : hist[i].fn = fn}

\* the reply with its response objects stripped
RECURSIVE Unwrapped(_)
Unwrapped(r) == IF r[1] = "obj" THEN Unwrapped(r[2]) ELSE r

\* the mapping a reply carries: itself when a dict, the object its JSON text
\* encodes, under any number of response objects; None when it carries none
MappingOf(r) ==
    LET u == Unwrapped(r)
    IN  IF u[1] = "dict" THEN u
        ELSE IF u[1] = "str" /\ u[2][1] = "json" /\ u[2][2][1] = "dict" THEN u[2][2]
        ELSE None

\* the number under "score" in a mapping, None when there is none
NumberAt(d) ==
    IF d[1] = "dict" /\ "score" \in DOMAIN d[2] /\ d[2]["score"][1] \in {"num", "bool"}
    THEN Num(float(d[2]["score"]))
    ELSE None

\* the score a payload holds: at top level first, else one level under "response"
ScoreOf(p) ==
    IF NumberAt(p) # None THEN NumberAt(p)
    ELSE IF p[1] = "dict" /\ "response" \in DOMAIN p[2] THEN NumberAt(p[2]["response"])
    ELSE None

\* C4: compute_urgency returns the maximum over the findings of weight * score,
\* weight 1.25 for Pneumothorax and Pleural Effusion and 1.0 for the others,
\* uncapped, and 0.0 for the empty map; for a map with a critical and a
\* non-critical finding it is 1.25 * max(critical scores) when that exceeds
\* max(non-critical scores), and the non-critical max otherwise.
C4_UrgencyIsWeightedMax ==
    \A i \in CallsOf("compute_urgency") :
        LET m == hist[i].arg
            u == hist[i].res[2]
            w(k) == IF k \in {"Pneumothorax", "Pleural Effusion"} THEN 125 ELSE 100
            crit == {m[k] : k \in DOMAIN m \cap {"Pneumothorax", "Pleural Effusion"}}
            rest == {m[k] : k \in DOMAIN m \ {"Pneumothorax", "Pleural Effusion"}}
        IN  /\ Returned(hist[i].res)
            /\ DOMAIN m = {} => u = 0
            /\ DOMAIN m # {} =>
                  /\ \E k \in DOMAIN m : u = w(k) * m[k]
                  /\ \A k \in DOMAIN m : u >= w(k) * m[k]
            /\ (crit # {} /\ rest # {}) =>
                  u = IF 125 * Max(crit) > 100 * Max(rest)
                      THEN 125 * Max(crit) ELSE 100 * Max(rest)

\* C4 witness: a map with a critical and a non-critical finding whose urgency
\* is the weighted critical score and exceeds 1.0
C4_Witness ==
    \E i \in CallsOf("compute_urgency") :
        /\ "Pneumothorax" \in DOMAIN hist[i].arg
        /\ "Cardiomegaly" \in DOMAIN hist[i].arg
        /\ hist[i].arg["Cardiomegaly"] >= hist[i].arg["Pneumothorax"]
        /\ hist[i].res[2] = 125 * hist[i].arg["Pneumothorax"]
        /\ hist[i].res[2] > 100 * ONE

\* C5 as stated: compute_urgency(scores) is 0.0 if and only if scores is empty.
C5_ZeroIffEmpty ==
    \A i \in CallsOf("compute_urgency") :
        (hist[i].res[2] = 0) <=> (DOMAIN hist[i].arg = {})

\* C5 amended: for probabilities in [0, 1], compute_urgency(scores) is 0.0 if and
\* only if every score of the map is 0.0, which the empty map satisfies.
C5_ZeroIffAllZero ==
    \A i \in CallsOf("compute_urgency") :
        (hist[i].res[2] = 0) <=> (\A k \in DOMAIN hist[i].arg : hist[i].arg[k] = 0)

\* C5 witness: a non-empty map of zero scores with urgency 0.0
C5_Witness ==
    \E i \in CallsOf("compute_urgency") :
        /\ hist[i].arg \in [{"Pneumothorax", "Cardiomegaly"} -> {0}]
        /\ hist[i].res[2] = 0

\* C6: _to_dict never raises and returns a mapping or None.
C6_MappingOrAbsent ==
    \A i \in CallsOf("_to_dict") :
        /\ Returned(hist[i].res)
        /\ hist[i].res[2] = None \/ hist[i].res[2][1] = "dict"

\* C7: for every x whose normal form is not None, _to_dict(_to_dict(x)) = _to_dict(x).
C7_Idempotent ==
    (Len(hist) = 2 /\ hist[1].fn = "_to_dict" /\ hist[2].fn = "_to_dict"
        /\ hist[2].arg = hist[1].res[2] /\ hist[1].res[2] # None)
    => hist[2].res = hist[1].res

\* C9: for every normalized payload _extract_score returns, without raising, the
\* numeric top-level "score", else the numeric "score" one level under a
\* "response" mapping, else None.
C9_ScoreTopThenNested ==
    \A i \in CallsOf("_extract_score") :
        /\ Returned(hist[i].res)
        /\ hist[i].res[2] = ScoreOf(hist[i].arg)

\* C9 on the payloads that are mappings, where the claim holds
C9_OnMappings ==
    \A i \in CallsOf("_extract_score") :
        hist[i].arg[1] = "dict" => hist[i].res = Ret(ScoreOf(hist[i].arg))

\* the names of the remote calls made, in order
Names(cs) == [i \in 1..Len(cs) |-> cs[i][3]]

\* the findings of a table with a model id, in the table's order
RECURSIVE WithModel(_)
WithModel(models) ==
    IF models = <<>> THEN <<>>
    ELSE (IF models[1][2] = None THEN <<>> ELSE <<models[1][1]>>) \o WithModel(Tail(models))

\* the score the reply of a call carries, None when the call raised or its reply
\* is unparsable or holds no numeric score
Scored(out) ==
    IF Raised(out) \/ MappingOf(out[2]) = None THEN None ELSE ScoreOf(MappingOf(out[2]))

\* C1: run_classifiers never raises because of a remote call; it calls the model
\* of every finding with a non-null model id, in order, whatever the earlier
\* calls did, and returns exactly the findings whose call returned a reply with
\* an extractable score.
C1_ClassifiersSwallowFailures ==
    \A i \in CallsOf("run_classifiers") :
        LET models == hist[i].arg[1]
            outs == hist[i].arg[2]
            res == hist[i].res
            hit == {j \in 1..Len(models) :
                        models[j][2] # None /\ Scored(outs[j]) # None}
        IN  IF Raised(res)
            THEN ~hoppr /\ hist[i].calls = <<>>
            ELSE /\ Names(hist[i].calls) = WithModel(models)
                 /\ DOMAIN res[2] = {models[j][1] : j \in hit}
                 /\ \A j \in hit : res[2][models[j][1]] = Scored(outs[j])[2]

\* C1 witness: the first call raises and the second returns a score, which is
\* the only one returned
C1_Witness ==
    \E i \in CallsOf("run_classifiers") :
        /\ Len(hist[i].arg[1]) = 2
        /\ hist[i].arg[2][1] \in RemoteErrors
        /\ hist[i].res = Ret([k \in {hist[i].arg[1][2][1]} |-> 90])

\* whether s is an initial part of t
IsPrefix(s, t) == Len(s) <= Len(t) /\ \A i \in 1..Len(s) : s[i] = t[i]

\* C2 as stated, for the calls made with a client at hand: add_image tries the
\* three styles in order, stops at the first that succeeds, and signals failure
\* only if all three were attempted and failed.
C2_FailsOnlyAfterAllThree ==
    \A i \in CallsOf("add_image") :
        LET outs == hist[i].arg
            tried == hist[i].calls
        IN  hoppr =>
            /\ IsPrefix(tried, UploadStyles)
            /\ Returned(hist[i].res) =>
                  /\ tried # <<>> /\ Returned(outs[Len(tried)])
                  /\ \A k \in 1..(Len(tried) - 1) : Raised(outs[k])
            /\ Raised(hist[i].res) =>
                  /\ Len(tried) = 3
                  /\ \A k \in 1..3 : Raised(outs[k])

\* C2 amended: with the client at hand add_image tries the three styles in order
\* and goes on to the next style only after a signature mismatch (TypeError); it
\* returns at the first style that succeeds; an error of another kind raised by a
\* style is passed to the caller at once, no later style being tried; it raises
\* RuntimeError after all three styles raised TypeError. Without a client (the
\* credential is missing) it raises before any attempt.
C2_FallbackOnTypeErrorOnly ==
    \A i \in CallsOf("add_image") :
        LET outs == hist[i].arg
            tried == hist[i].calls
            res == hist[i].res
        IN  /\ IsPrefix(tried, UploadStyles)
            /\ \A k \in 1..(Len(tried) - 1) : outs[k] = Raise("TypeError")
            /\ IF ~hoppr THEN tried = <<>> /\ res = Raise("RuntimeError")
               ELSE /\ tried # <<>>
                    /\ Returned(res) <=> Returned(outs[Len(tried)])
                    /\ Raised(res) =>
                          IF outs[Len(tried)] = Raise("TypeError")
                          THEN Len(tried) = 3 /\ res = Raise("RuntimeError")
                          ELSE res = outs[Len(tried)]
            /\ (hoppr /\ outs = <<Raise("TypeError"), Raise("TypeError"), Ret(None)>>)
                  => Returned(res) /\ tried = UploadStyles

\* C2 witness: the first two styles raise TypeError, the third succeeds
C2_Witness ==
    \E i \in CallsOf("add_image") :
        /\ hist[i].arg = <<Raise("TypeError"), Raise("TypeError"), Ret(None)>>
        /\ hist[i].res = Ret(None)
        /\ Len(hist[i].calls) = 3

\* the narrative a reply carries: the text under "findings" at top level, else
\* the one under "findings" one level under a "response" mapping, else ""
TextAt(d) ==
    IF d[1] = "dict" /\ "findings" \in DOMAIN d[2] /\ d[2]["findings"][1] = "str"
    THEN d[2]["findings"] ELSE None

Narrative(out) ==
    IF Raised(out) THEN EmptyStr
    ELSE LET m == MappingOf(out[2])
         IN  IF TextAt(m) # None THEN TextAt(m)
             ELSE IF m[1] = "dict" /\ "response" \in DOMAIN m[2]
                     /\ TextAt(m[2]["response"]) # None
                  THEN TextAt(m[2]["response"])
             ELSE EmptyStr

Normalized(resp) == Or(_to_dict(resp), _to_dict(getattr_response(resp)))

\* the debug variant was called after the simple one on the same arguments
Compared(fn) == Len(hist) = 2 /\ hist[2].fn = fn

\* the debug variant ends as the simple one does, with the same primary result
SamePrimary ==
    /\ Raised(hist[1].res) <=> Raised(hist[2].res)
    /\ Raised(hist[2].res) => hist[2].res = hist[1].res
    /\ Returned(hist[2].res) => hist[2].res[2][1] = hist[1].res[2]

\* the payload map has one entry for every finding of the table with a non-null
\* model id and no other entry
OneEntryPerModel ==
    Returned(hist[2].res) =>
        DOMAIN hist[2].res[2][2] = {input[2][i][1] : i \in {j \in 1..Len(input[2]) : input[2][j][2] # None}}

IsErrorDescriptor(v) == isinstance_dict(v) /\ DOMAIN v[2] = {"error"}

\* C14 as stated: the debug variants return the same score map, the same narrative
\* text, as the simple ones on the same table and remote outcomes; the payload map
\* has exactly one entry for every finding with a non-null model id, which is the
\* normalized payload, or an error descriptor when the call raised.
C14_PayloadOrErrorDescriptor ==
    /\ Compared("run_vlm_with_payload") => SamePrimary
    /\ Compared("run_classifiers_with_payload") =>
          /\ SamePrimary
          /\ OneEntryPerModel
          /\ Returned(hist[2].res) =>
                \A i \in Called(input[2]) :
                    LET entry == hist[2].res[2][2][input[2][i][1]]
                    IN  IF Raised(input[3][i]) THEN IsErrorDescriptor(entry)
                        ELSE entry = Normalized(input[3][i][2])

\* C14 amended: the same, the entry of a call that returned being the normalized
\* payload when that is non-empty and the note descriptor otherwise (the reply
\* does not parse, or parses to None, to an empty mapping or to another empty
\* value).
C14_PayloadNoteOrErrorDescriptor ==
    /\ Compared("run_vlm_with_payload") => SamePrimary
    /\ Compared("run_classifiers_with_payload") =>
          /\ SamePrimary
          /\ OneEntryPerModel
          /\ Returned(hist[2].res) =>
                \A i \in Called(input[2]) :
                    LET entry == hist[2].res[2][2][input[2][i][1]]
                    IN  IF Raised(input[3][i]) THEN IsErrorDescriptor(entry)
                        ELSE IF Truthy(Normalized(input[3][i][2]))
                             THEN entry = Normalized(input[3][i][2])
                        ELSE entry = NoteDescriptor

\* C14 witness: a table of a finding with a null model id and one with a model
\* whose reply does not parse; the payload map holds the note for the second alone
\* and both variants return no score
C14_Witness ==
    /\ Compared("run_classifiers_with_payload") /\ Returned(hist[2].res)
    /\ Len(input[2]) = 2 /\ Cardinality(Called(input[2])) = 1
    /\ \A i \in Called(input[2]) :
          /\ Returned(input[3][i]) /\ Normalized(input[3][i][2]) = None
          /\ hist[2].res[2][2] = [k \in {input[2][i][1]} |-> NoteDescriptor]
    /\ hist[2].res[2][1] = NoScores /\ hist[1].res[2] = NoScores

(***************************************************************************)
(* Properties of the session (checked under Spec).                         *)
(***************************************************************************)
\* C3: with the credential set, when a batch run has ended, every file of the
\* batch other than those whose study creation or upload failed has its row in
\* the triage list.
C3_FailureIsPerFile ==
    (api_key /\ status.run = "batch" /\ status.result \in {"ok", "exception"})
    => status.appended \cup status.failed = 1..status.files

\* C10: the triage list is, in order, the rows of the files processed since the
\* last clear: an iteration of the batch loop leaves it or appends one row, a
\* clear empties it, and no other script run changes it.
C10_AppendOrClearOnly ==
    [][ /\ triage_rows' = processed'
        /\ loop # <<>> =>
              /\ IsPrefix(triage_rows, triage_rows')
              /\ Len(triage_rows') <= Len(triage_rows) + 1
        /\ status'.run = "clear" => triage_rows' = <<>>
        /\ (loop = <<>> /\ status'.run # "clear") => triage_rows' = triage_rows ]_vars

\* C10 witness: two rows of one batch, in upload order, still there after a
\* run-batch click that was rejected
C10_Witness ==
    /\ Len(triage_rows) = 2
    /\ triage_rows[1].file = 1 /\ triage_rows[2].file = 2
    /\ triage_rows[1].scores # triage_rows[2].scores
    /\ status.run = "batch" /\ status.result = "st.error"

\* a run-inference click whose handler took an uploaded file to the pipeline
InferenceRun ==
    \/ status.run = "batch" /\ status.appended \cup status.failed # {}
    \/ status.run \in {"single", "patient"} /\ status.files = 1

\* C11: when the credential is absent from the environment the application fails
\* at startup: no run-inference action on an uploaded file is ever taken, so the
\* absence is never found by a handler on its way to a remote operation.
C11_MissingKeyFatalAtStartup == ~api_key => ~InferenceRun

\* the study was created and the image uploaded, so the case got to its model calls
ModelsReached(o) ==
    /\ Returned(create_study(TRUE, TRUE, o.create))
    /\ Returned(add_image(TRUE, TRUE, o.upload).res)

\* a classifier call that succeeds: it returns a reply carrying a numeric score
ScoredReply(out) == Returned(out) /\ isinstance_dict(out[2]) /\ NumericScoreIn(out[2])

\* a batch of two files has run through its model calls, every classifier call
\* of the first file raising and exactly one of the second succeeding
OneScoreScenario ==
    /\ status.run = "batch" /\ status.files = 2 /\ Len(drawn) = 2
    /\ ModelsReached(drawn[1]) /\ ModelsReached(drawn[2])
    /\ \A i \in DOMAIN drawn[1].cls : Raised(drawn[1].cls[i])
    /\ Cardinality({i \in DOMAIN drawn[2].cls : ScoredReply(drawn[2].cls[i])}) = 1

\* C12: every row of the triage list has urgency = compute_urgency(its scores);
\* and in a batch of two files where every classifier call for the first file
\* raises and exactly one for the second succeeds, no exception escapes the run,
\* the first row has an empty score map and urgency 0.0, the second exactly one
\* score (the one replied) and the urgency computed from it.
C12_UrgencyFromScores ==
    /\ \A i \in 1..Len(triage_rows) :
          triage_rows[i].urgency = compute_urgency(triage_rows[i].scores)
    /\ OneScoreScenario =>
          /\ status.result = "ok" /\ status.appended = {1, 2}
          /\ Len(triage_rows) >= 2
          /\ LET A == triage_rows[Len(triage_rows) - 1]
                 B == triage_rows[Len(triage_rows)]
                 hit == CHOOSE i \in DOMAIN drawn[2].cls : ScoredReply(drawn[2].cls[i])
                 score == float(drawn[2].cls[hit][2][2]["score"])
             IN  /\ A.file = 1 /\ DOMAIN A.scores = {} /\ A.urgency = 0
                 /\ B.file = 2 /\ Cardinality(DOMAIN B.scores) = 1
                 /\ \A k \in DOMAIN B.scores :
                       B.scores[k] = score /\ B.urgency = Weight(k) * score

\* C12 witness: the scenario with two classifier calls for each file, the second
\* file's other call raising, and a critical finding scored
C12_Witness ==
    /\ OneScoreScenario
    /\ Cardinality(DOMAIN drawn[2].cls) = 2
    /\ \E i \in DOMAIN drawn[2].cls : Raised(drawn[2].cls[i])
    /\ triage_rows[Len(triage_rows)].urgency = CRITICAL_WEIGHT * 90
    /\ triage_rows[Len(triage_rows) - 1].urgency = 0

\* the file a logged remote call belongs to (0: the single case)
FileOf(c) == c[1]

\* the step of the pipeline a logged remote call belongs to: study creation,
\* upload, classifier, narrative
Phase(c) ==
    IF c[2] = "create_study" THEN 1
    ELSE IF c[2] = "add_study_image" THEN 2
    ELSE IF c[3] = VLM_MODEL_ID THEN 4
    ELSE 3

\* the place of a finding in FINDING_MODELS, of a call style in UploadStyles
TableIndex(name) == CHOOSE i \in 1..Len(FINDING_MODELS) : FINDING_MODELS[i][1] = name
StyleIndex(style) == CHOOSE i \in 1..Len(UploadStyles) : UploadStyles[i] = style

\* the file of the k-th case of the current script run
FileOfCase(k) == IF status.run = "single" THEN 0 ELSE k

\* the logged calls of file f that belong to the given step
CallsAt(f, phase) == {i \in 1..Len(calls) : FileOf(calls[i]) = f /\ Phase(calls[i]) = phase}

\* C15: the remote calls of a script run are issued file after file; for each
\* file: create_study once, then the upload attempts, then the classifier calls
\* in model-table order, then the one narrative call; a model call is issued only
\* for a file whose study was created and whose image was uploaded, and then
\* every classifier of the table and the narrative model are called.
C15_RemoteCallsInOrder ==
    /\ \A i, j \in 1..Len(calls) : i < j =>
          /\ FileOf(calls[i]) <= FileOf(calls[j])
          /\ FileOf(calls[i]) = FileOf(calls[j]) =>
                /\ Phase(calls[i]) <= Phase(calls[j])
                /\ Phase(calls[i]) = Phase(calls[j]) => Phase(calls[i]) \in {2, 3}
                /\ (Phase(calls[i]) = 2 /\ Phase(calls[j]) = 2) =>
                      StyleIndex(calls[i][3]) < StyleIndex(calls[j][3])
                /\ (Phase(calls[i]) = 3 /\ Phase(calls[j]) = 3) =>
                      TableIndex(calls[i][4]) < TableIndex(calls[j][4])
    /\ \A i \in 1..Len(calls) :
          /\ (i = 1 \/ FileOf(calls[i - 1]) # FileOf(calls[i])) => Phase(calls[i]) = 1
          /\ Phase(calls[i]) \in {3, 4} => CallsAt(FileOf(calls[i]), 2) # {}
    /\ \A k \in 1..Len(drawn) :
          IF api_key /\ ModelsReached(drawn[k])
          THEN /\ Cardinality(CallsAt(FileOfCase(k), 3)) = Cardinality(DOMAIN drawn[k].cls)
               /\ Cardinality(CallsAt(FileOfCase(k), 4)) = 1
          ELSE CallsAt(FileOfCase(k), 3) \cup CallsAt(FileOfCase(k), 4) = {}

\* C15 witness: a batch of two files has run, a classifier call of the first file
\* raised, and the log holds for each file the study creation, the upload, two
\* classifier calls and the narrative call
C15_Witness ==
    /\ status.run = "batch" /\ status.result = "ok" /\ status.files = 2
    /\ Len(calls) = 10
    /\ \E i \in DOMAIN drawn[1].cls : Raised(drawn[1].cls[i])
    /\ \A f \in {1, 2} :
          Cardinality(CallsAt(f, 3)) = 2 /\ Cardinality(CallsAt(f, 4)) = 1

(***************************************************************************)
(* Properties of the patient view (checked under SpecPatient).             *)
(***************************************************************************)
\* C13: whenever the patient view has both thresholds, maybe_thr < flag_thr: the
\* sliders' ranges let the user reach no setting with maybe_thr >= flag_thr.
C13_MaybeBelowFlag ==
    (mode = "Patient" /\ "maybe" \in DOMAIN sliders) => maybe_thr < flag_thr

====
